---- MODULE Spec2Model ----
(***************************************************************************)
(* Model of pixelscan (src/pixelscan/pixelscan.py): pattern generators     *)
(* (gridscan, snakescan, circlescan, hilbertscan, ringscan, walkscan) and   *)
(* transformation classes                                                  *)
(* (clip, skip, reservoir, sample, reflection, rotation, scale,            *)
(* translation, swap, snap) as pull-based streams.                         *)
(*                                                                         *)
(* A stream is pulled with next(); a pull returns a point, signals         *)
(* exhaustion (StopIteration) or raises an error.  `scan` is the source    *)
(* generator, `head` the transformation object wrapped around it (NoObj    *)
(* when the consumer pulls the generator directly), `out` the history of    *)
(* the results the consumer's pulls returned, in order, and `err` the       *)
(* exception the constructing call raised ("none" when it returned).  The   *)
(* field hist of a generator is the history of the points it has handed to  *)
(* the transformation around it.                                            *)
(***************************************************************************)
EXTENDS Integers, Sequences, FiniteSets, TLC

VARIABLES scan, head, out, err

vars == <<scan, head, out, err>>

----------------------------------------------------------------------------
(* Bounds of the model *)

\* coordinates of the scan parameters range over -MaxBelow..MaxCoord
MaxBelow == 1
MaxCoord == 3
\* largest step of gridscan tried (0 is tried too: the invalid case)
MaxStep == 2
\* pulls the consumer still makes after a pull that did not return a point
MaxRepull == 2
\* hilbertscan is tried with size in 1..MaxSize and distance in 0..MaxDist
MaxSize == 8
MaxDist == 65
\* floats are carried as fixed-point integers with FracBits binary places
FracBits == 12
\* ringscan is tried with radii in -1..MaxRadius (-1: the invalid case)
MaxRadius == 3
\* a random draw is one of the words 0..RandMax-1
RandMax == 4
\* random draws one handler invocation can make
MaxDraws == 2
\* pulls the consumer makes on the head of a chain
MaxChainPulls == 4
\* the gridscans wrapped in a chain run from (0,0) to (0..MaxChainX, 0..MaxChainY)
MaxChainX == 2
MaxChainY == 1
\* circlescan is tried with radii in -1..MaxCircle (-1: the invalid case)
MaxCircle == 7
\* random draws the constructor of reservoir can make when it is tried alone
MaxFill == 5

----------------------------------------------------------------------------
(* Results of a pull *)

Pt(x, y) == [tag |-> "pt", x |-> x, y |-> y]
Stop == [tag |-> "stop", x |-> 0, y |-> 0]
Raise(e) == [tag |-> e, x |-> 0, y |-> 0]

IsPt(r) == r.tag = "pt"

\* no transformation: the consumer pulls the generator itself
NoObj == [kind |-> "none"]

\* no generator has been called yet
NoGen == [kind |-> "none", pc |-> "none"]

\* a generator whose body has returned or raised: every later next() on it is
\* StopIteration (the record keeps the arguments it was called with)
Finished(g) == [g EXCEPT !.pc = "done"]

Abs(a) == IF a < 0 THEN -a ELSE a
Max2(a, b) == IF a >= b THEN a ELSE b
Min2(a, b) == IF a <= b THEN a ELSE b

\* the points among the results of a history
PointsOf(h) == SelectSeq(h, IsPt)

\* number of pulls of a history that did not return a point
NonPoints(h) == Len(h) - Len(PointsOf(h))

\* the consumer keeps pulling, also after exhaustion, a bounded number of times
CanPull == NonPoints(out) < MaxRepull

\* membership of v in Python's range(start, stop, step) once v = start + k*step
InRange(v, stop, step) == IF step > 0 THEN v < stop ELSE v > stop

----------------------------------------------------------------------------
(* gridscan *)

\* the call gridscan(xi, yi, xf, yf, stepx, stepy): a generator function, so
\* the call runs none of the body and returns a generator object
gridscan(xi, yi, xf, yf, stepx, stepy) ==
  [kind |-> "gridscan", pc |-> "created",
   xi |-> xi, yi |-> yi, xf |-> xf, yf |-> yf, stepx |-> stepx, stepy |-> stepy,
   dx |-> 0, dy |-> 0, x |-> 0, y |-> 0, hist |-> <<>>]

\* next() on a gridscan generator: run the body to the next yield or to its end
gridscan_next(g) ==
  IF g.pc = "created" THEN
    IF g.stepx <= 0 \/ g.stepy <= 0 THEN [gen |-> Finished(g), res |-> Raise("ValueError")]
    ELSE LET dx == IF g.xf >= g.xi THEN g.stepx ELSE -g.stepx
             dy == IF g.yf >= g.yi THEN g.stepy ELSE -g.stepy
         IN  \* both ranges hold their first element: xf + dx lies beyond xi
             [gen |-> [g EXCEPT !.pc = "yield", !.dx = dx, !.dy = dy,
                                !.x = g.xi, !.y = g.yi],
              res |-> Pt(g.xi, g.yi)]
  ELSE IF g.pc = "yield" THEN
    IF InRange(g.x + g.dx, g.xf + g.dx, g.dx)
    THEN [gen |-> [g EXCEPT !.x = g.x + g.dx], res |-> Pt(g.x + g.dx, g.y)]
    ELSE IF InRange(g.y + g.dy, g.yf + g.dy, g.dy)
    THEN [gen |-> [g EXCEPT !.x = g.xi, !.y = g.y + g.dy], res |-> Pt(g.xi, g.y + g.dy)]
    ELSE [gen |-> Finished(g), res |-> Stop]
  ELSE [gen |-> Finished(g), res |-> Stop]

Coords == (-MaxBelow)..MaxCoord
Steps == 0..MaxStep

GridArgs == [xi : Coords, yi : Coords, xf : Coords, yf : Coords, stepx : Steps, stepy : Steps]

InitGrid ==
  /\ \E a \in GridArgs : scan = gridscan(a.xi, a.yi, a.xf, a.yf, a.stepx, a.stepy)
  /\ head = NoObj
  /\ out = <<>>
  /\ err = "none"

\* the consumer pulls the gridscan generator
gridscan_pull ==
  /\ head = NoObj
  /\ scan.kind = "gridscan"
  /\ CanPull
  /\ LET r == gridscan_next(scan)
     IN  /\ scan' = r.gen
         /\ out' = Append(out, r.res)
  /\ UNCHANGED <<head, err>>

NextGrid == gridscan_pull

SpecGrid == InitGrid /\ [][NextGrid]_vars

CeilDiv(a, b) == (a + b - 1) \div b

InBox(p, xa, ya, xb, yb) ==
  /\ Min2(xa, xb) <= p.x /\ p.x <= Max2(xa, xb)
  /\ Min2(ya, yb) <= p.y /\ p.y <= Max2(ya, yb)

\* C2: once a gridscan with positive steps is exhausted it has emitted exactly
\* ceil((|xf-xi|+1)/stepx) * ceil((|yf-yi|+1)/stepy) points, and every point it
\* emits lies in [min(xi,xf),max(xi,xf)] x [min(yi,yf),max(yi,yf)].
C2_GridCountAndBounds ==
  (scan.kind = "gridscan" /\ scan.stepx > 0 /\ scan.stepy > 0) =>
    /\ \A i \in DOMAIN out :
         IsPt(out[i]) => InBox(out[i], scan.xi, scan.yi, scan.xf, scan.yf)
    /\ scan.pc = "done" =>
         Len(PointsOf(out)) = CeilDiv(Abs(scan.xf - scan.xi) + 1, scan.stepx)
                              * CeilDiv(Abs(scan.yf - scan.yi) + 1, scan.stepy)

----------------------------------------------------------------------------
(* snakescan *)

\* the call snakescan(xi, yi, xf, yf): a generator object, no body run yet
snakescan(xi, yi, xf, yf) ==
  [kind |-> "snakescan", pc |-> "created", xi |-> xi, yi |-> yi, xf |-> xf, yf |-> yf,
   dx |-> 0, dy |-> 0, xa |-> 0, xb |-> 0, x |-> 0, y |-> 0, hist |-> <<>>]

\* a snake that never turns at the end of a line
snake_turn_never(g) == FALSE

\* the end of a line is reached: x == xa or x == xb
snake_turn(g) == g.x = g.xa \/ g.x = g.xb

\* the generator at the end of a line: the x-direction is swapped
snake_turned(g) ==
  IF snake_turn(g) THEN [g EXCEPT !.dx = -g.dx, !.xa = g.xb, !.xb = g.xa] ELSE g

\* the next line, t being the generator after the end of the line before
\* (range(xa, xb + dx, dx) holds xa: dx points from xa to xb)
snake_line(t) ==
  IF InRange(t.y + t.dy, t.yf + t.dy, t.dy)
  THEN [gen |-> [t EXCEPT !.x = t.xa, !.y = t.y + t.dy], res |-> Pt(t.xa, t.y + t.dy)]
  ELSE [gen |-> Finished(t), res |-> Stop]

\* next() on a snakescan generator
snakescan_next(g) ==
  IF g.pc = "created" THEN
    \* both ranges hold their first element
    [gen |-> [g EXCEPT !.pc = "yield", !.x = g.xi, !.y = g.yi, !.xa = g.xi, !.xb = g.xf,
                       !.dx = IF g.xf >= g.xi THEN 1 ELSE -1,
                       !.dy = IF g.yf >= g.yi THEN 1 ELSE -1],
     res |-> Pt(g.xi, g.yi)]
  ELSE IF g.pc = "yield" THEN
    IF InRange(g.x + g.dx, g.xb + g.dx, g.dx)
    THEN [gen |-> [g EXCEPT !.x = g.x + g.dx], res |-> Pt(g.x + g.dx, g.y)]
    ELSE snake_line(snake_turned(g))
  ELSE [gen |-> Finished(g), res |-> Stop]

SnakeArgs == [xi : Coords, yi : Coords, xf : Coords, yf : Coords]

InitSnake ==
  /\ \E a \in SnakeArgs : scan = snakescan(a.xi, a.yi, a.xf, a.yf)
  /\ head = NoObj
  /\ out = <<>>
  /\ err = "none"

\* what the consumer's pull of the generator gave
Got(r) ==
  /\ scan' = r.gen
  /\ out' = Append(out, r.res)
  /\ UNCHANGED <<head, err>>

\* the consumer pulls the snakescan generator
snakescan_pull ==
  /\ head = NoObj
  /\ scan.kind = "snakescan"
  /\ CanPull
  /\ Got(snakescan_next(scan))

NextSnake == snakescan_pull

SpecSnake == InitSnake /\ [][NextSnake]_vars

\* all the points of a gridscan generator, pulled to exhaustion
RECURSIVE gridscan_rest(_)
gridscan_all(r) == IF IsPt(r.res) THEN <<r.res>> \o gridscan_rest(r.gen) ELSE <<>>

gridscan_rest(g) == gridscan_all(gridscan_next(g))

SeqSet(h) == {h[i] : i \in DOMAIN h}

NoRepeat(h) == \A i, j \in DOMAIN h : i # j => h[i] # h[j]

\* the pull i+1 moved along the line from the point of pull i
XStep(h, i) == h[i + 1].y = h[i].y /\ h[i + 1].x # h[i].x

\* C11: snakescan emits exactly the points of gridscan over the same bounds
\* with unit steps, each once; two consecutive points differ by exactly 1 in
\* exactly one coordinate; the x direction alternates from a line to the next.
C11_SnakeIsGridBoustrophedon ==
  scan.kind = "snakescan" =>
    LET pts == PointsOf(out) IN
    /\ NoRepeat(pts)
    /\ SeqSet(pts) \subseteq
         SeqSet(gridscan_rest(gridscan(scan.xi, scan.yi, scan.xf, scan.yf, 1, 1)))
    /\ scan.pc = "done" =>
         SeqSet(pts) = SeqSet(gridscan_rest(gridscan(scan.xi, scan.yi, scan.xf, scan.yf, 1, 1)))
    /\ \A i \in 1..(Len(pts) - 1) :
         Abs(pts[i + 1].x - pts[i].x) + Abs(pts[i + 1].y - pts[i].y) = 1
    /\ \A i, j \in 1..(Len(pts) - 1) :
         (XStep(pts, i) /\ XStep(pts, j)) =>
           ((pts[i + 1].x - pts[i].x = pts[j + 1].x - pts[j].x)
              <=> (pts[i].y - pts[j].y) % 2 = 0)

\* snakescan over a box with xf < xi and three lines is exhausted
C11_Witness ==
  /\ scan.kind = "snakescan" /\ scan.pc = "done"
  /\ scan.xf < scan.xi /\ Abs(scan.yf - scan.yi) = 2
  /\ Len(PointsOf(out)) = 3 * (scan.xi - scan.xf + 1)

----------------------------------------------------------------------------
(* Floating point bitwise operations, on non-negative floats.  A float v is  *)
(* carried as the integer v * 2^FracBits; every float hilbertscan computes   *)
(* is a multiple of 2^-FracBits, so the representation is exact.             *)

RECURSIVE Pow2(_)
Pow2(n) == IF n <= 0 THEN 1 ELSE 2 * Pow2(n - 1)

One == Pow2(FracBits)

\* int.bit_length()
RECURSIVE bit_length(_)
bit_length(n) == IF n = 0 THEN 0 ELSE 1 + bit_length(Abs(n) \div 2)

\* mantissas aligned on the larger exponent and combined bit by bit
RECURSIVE float_and_(_, _)
float_and_(a, b) ==
  IF a = 0 \/ b = 0 THEN 0
  ELSE (IF a % 2 = 1 /\ b % 2 = 1 THEN 1 ELSE 0) + 2 * float_and_(a \div 2, b \div 2)

RECURSIVE float_xor_(_, _)
float_xor_(a, b) ==
  IF a = 0 /\ b = 0 THEN 0
  ELSE (IF a % 2 # b % 2 THEN 1 ELSE 0) + 2 * float_xor_(a \div 2, b \div 2)

float_and(a, b) ==
  IF a = 0 THEN 0
  ELSE IF b = 0 THEN 0
  ELSE IF a >= b THEN float_and_(a, b) ELSE float_and_(b, a)

float_xor(a, b) ==
  IF a = 0 THEN b
  ELSE IF b = 0 THEN a
  ELSE IF a >= b THEN float_xor_(a, b) ELSE float_xor_(b, a)

----------------------------------------------------------------------------
(* hilbertscan *)

\* hilbertrot that flips the quadrant but forgets to exchange x and y
hilbertrot_noswap(n, x, y, rx, ry) ==
  IF ry = 0
  THEN IF rx = One THEN <<n - 1 - x, n - 1 - y>> ELSE <<x, y>>
  ELSE <<x, y>>

\* hilbertrot(n, x, y, rx, ry), rx and ry being the floats 0.0 or 1.0
hilbertrot(n, x, y, rx, ry) ==
  IF ry = 0
  THEN IF rx = One THEN <<n - 1 - y, n - 1 - x>> ELSE <<y, x>>
  ELSE <<x, y>>

\* the size hilbertscan works with: size = 2 * (1 << (size-1).bit_length())
hilbert_size(size) == 2 * Pow2(bit_length(size - 1))

\* the distance test off by one: distance > size**2
hilbert_invalid_offbyone(size, distance) == distance > size * size

\* the test that rejects a distance: distance > size**2 - 1
hilbert_invalid(size, distance) == distance > size * size - 1

\* the while loop of hilbertscan from s on; t is a float, x and y hold whole numbers
RECURSIVE hilbert_loop(_, _, _, _, _)
hilbert_loop(s, size, t, x, y) ==
  IF s < size THEN
    LET rx == float_and(One, t \div 2)
        ry == float_and(One, float_xor(t, rx))
        r  == hilbertrot(s, x, y, rx, ry)
    IN  hilbert_loop(s * 2, size, t \div 4,
                     r[1] + s * (rx \div One), r[2] + s * (ry \div One))
  ELSE <<x, y>>

\* the call hilbertscan(size, distance): a generator object, no body run yet.
\* pep479 tells whether the interpreter turns a StopIteration raised inside a
\* generator body into RuntimeError (Python 3.7 on) or ends the generator
hilbertscan(size, distance, pep479) ==
  [kind |-> "hilbertscan", pc |-> "created", size |-> size, distance |-> distance,
   pep479 |-> pep479, d |-> 0, hist |-> <<>>]

\* next() on a hilbertscan generator
hilbertscan_next(g) ==
  LET size == hilbert_size(g.size)
      d == IF g.pc = "created" THEN 0 ELSE g.d + 1
  IN  IF g.pc = "done" THEN [gen |-> g, res |-> Stop]
      ELSE IF g.pc = "created" /\ hilbert_invalid(size, g.distance)
      THEN [gen |-> Finished(g),
            res |-> IF g.pep479 THEN Raise("RuntimeError") ELSE Stop]
      ELSE IF d < g.distance
      THEN LET p == hilbert_loop(1, size, d * One, 0, 0)
           IN  [gen |-> [g EXCEPT !.pc = "yield", !.d = d], res |-> Pt(p[1], p[2])]
      ELSE [gen |-> Finished(g), res |-> Stop]

HilbertArgs == [size : 1..MaxSize, distance : 0..MaxDist, pep479 : BOOLEAN]

InitHilbert ==
  /\ \E a \in HilbertArgs : scan = hilbertscan(a.size, a.distance, a.pep479)
  /\ head = NoObj
  /\ out = <<>>
  /\ err = "none"

\* the consumer pulls the hilbertscan generator
hilbertscan_pull ==
  /\ head = NoObj
  /\ scan.kind = "hilbertscan"
  /\ CanPull
  /\ LET r == hilbertscan_next(scan)
     IN  /\ scan' = r.gen
         /\ out' = Append(out, r.res)
  /\ UNCHANGED <<head, err>>

NextHilbert == hilbertscan_pull

SpecHilbert == InitHilbert /\ [][NextHilbert]_vars

IsPowerOfTwo(n) == n >= 1 /\ \A q \in 2..n : (n % q = 0) => (q % 2 = 0)

\* the least power of two that is at least n (n >= 1)
NextPow2(n) == CHOOSE p \in n..(2 * n) : IsPowerOfTwo(p) /\ \A q \in n..(p - 1) : ~IsPowerOfTwo(q)

NoPointIn(h) == \A i \in DOMAIN h : ~IsPt(h[i])
NoErrorIn(h) == \A i \in DOMAIN h : h[i].tag \in {"pt", "stop"}

\* the outcome of hilbertscan(size, distance) when S*S is the first rejected
\* distance: from S*S on no point is ever emitted, below it the call is
\* accepted (no error, and the scan ends after `distance` points)
HilbertLimitIs(S) ==
  scan.kind = "hilbertscan" =>
    /\ scan.distance >= S * S => NoPointIn(out)
    /\ scan.distance <= S * S - 1 =>
         /\ NoErrorIn(out)
         /\ scan.pc = "done" => Len(PointsOf(out)) = scan.distance

UnitAdjacent(p, q) == Abs(p.x - q.x) + Abs(p.y - q.y) = 1

\* C5: hilbertscan(n, n*n), n a power of two, emits n*n points starting at
\* (0,0), every cell of [0,n-1]x[0,n-1] exactly once, consecutive points
\* differing by 1 in exactly one coordinate.
C5_HilbertFullTraversal ==
  (scan.kind = "hilbertscan" /\ IsPowerOfTwo(scan.size)
     /\ scan.distance = scan.size * scan.size) =>
    LET pts == PointsOf(out) n == scan.size IN
    /\ NoErrorIn(out)
    /\ \A i \in DOMAIN out : IsPt(out[i]) => \A j \in 1..i : IsPt(out[j])
    /\ Len(pts) >= 1 => pts[1] = Pt(0, 0)
    /\ \A i \in DOMAIN pts : pts[i].x \in 0..(n - 1) /\ pts[i].y \in 0..(n - 1)
    /\ \A i, j \in DOMAIN pts : i # j => pts[i] # pts[j]
    /\ \A i \in 1..(Len(pts) - 1) : UnitAdjacent(pts[i], pts[i + 1])
    /\ scan.pc = "done" => Len(pts) = n * n

\* hilbertscan(4, 16) has run to its end
C5_Witness ==
  /\ scan.kind = "hilbertscan" /\ scan.size = 4 /\ scan.distance = 16
  /\ scan.pc = "done" /\ Len(PointsOf(out)) = 16

----------------------------------------------------------------------------
(* Distance metrics.  A metric is a record: the library's chebyshev and      *)
(* manhattan, a constant function (badmetric of the tests), a function that  *)
(* is c at the single point center + (1, c) and 0 elsewhere, or an object    *)
(* that is not callable.                                                     *)

chebyshev(point1, point2) == Max2(Abs(point1[1] - point2[1]), Abs(point1[2] - point2[2]))

manhattan(point1, point2) == Abs(point1[1] - point2[1]) + Abs(point1[2] - point2[2])

badmetric(c, point1, point2) == c

spotmetric(c, point1, point2) ==
  IF point2 = <<point1[1] + 1, point1[2] + c>> THEN c ELSE 0

\* metric(center, nextpoint) as ringscan calls it
call_metric(m, point1, point2) ==
  CASE m.kind = "chebyshev" -> chebyshev(point1, point2)
    [] m.kind = "manhattan" -> manhattan(point1, point2)
    [] m.kind = "const"     -> badmetric(m.c, point1, point2)
    [] m.kind = "spot"      -> spotmetric(m.c, point1, point2)

\* hasattr(metric, "__call__")
callable(m) == m.kind # "notcallable"

----------------------------------------------------------------------------
(* ringscan *)

\* the clockwise step directions
steps(direction) ==
  CASE direction = 0 -> <<1, 0>>
    [] direction = 1 -> <<1, -1>>
    [] direction = 2 -> <<0, -1>>
    [] direction = 3 -> <<-1, -1>>
    [] direction = 4 -> <<-1, 0>>
    [] direction = 5 -> <<-1, 1>>
    [] direction = 6 -> <<0, 1>>
    [] direction = 7 -> <<1, 1>>

nsteps == 8

\* a turn that skips a direction
ring_turn_skip(direction) == (direction + 2) % nsteps

\* try the next direction: direction = (direction + 1) % nsteps
ring_turn(direction) == (direction + 1) % nsteps

\* the call ringscan(x0, y0, r1, r2, metric): a generator object, no body run yet
ringscan(x0, y0, r1, r2, metric) ==
  [kind |-> "ringscan", pc |-> "created",
   x0 |-> x0, y0 |-> y0, r1 |-> r1, r2 |-> r2, metric |-> metric,
   direction |-> 0, rstep |-> 0, distance |-> 0,
   initial |-> <<0, 0>>, current |-> <<0, 0>>, nextpoint |-> <<0, 0>>, ntrys |-> 0,
   hist |-> <<>>]

RECURSIVE ring_for(_, _)

\* all directions failed and the scan goes on with the next radius
ring_abandon_continue(g) == ring_for(g, g.distance + g.rstep)

\* all nsteps directions failed: the break out of the while loop and the
\* break out of the loop over the radii that follows it
ring_abandon(g) == [gen |-> Finished(g), res |-> Stop]

\* the while loop of one ring, from its top
RECURSIVE ring_while(_)
ring_while(g) ==
  IF g.distance = 0
  THEN [gen |-> [g EXCEPT !.pc = "yield0"], res |-> Pt(g.current[1], g.current[2])]
  ELSE LET nextpoint == <<g.current[1] + steps(g.direction)[1],
                          g.current[2] + steps(g.direction)[2]>>
       IN  IF call_metric(g.metric, <<g.x0, g.y0>>, nextpoint) # g.distance
           THEN IF g.ntrys + 1 = nsteps
                THEN ring_abandon([g EXCEPT !.ntrys = g.ntrys + 1])
                ELSE ring_while([g EXCEPT !.ntrys = g.ntrys + 1,
                                          !.direction = ring_turn(g.direction)])
           ELSE [gen |-> [g EXCEPT !.pc = "yield1", !.ntrys = 0, !.nextpoint = nextpoint],
                 res |-> Pt(g.current[1], g.current[2])]

\* the loop over the radii, entered with the value `distance`
ring_for(g, distance) ==
  IF InRange(distance, g.r2 + g.rstep, g.rstep)
  THEN ring_while([g EXCEPT !.distance = distance,
                            !.initial = <<g.x0, g.y0 + distance>>,
                            !.current = <<g.x0, g.y0 + distance>>,
                            !.ntrys = 0])
  ELSE [gen |-> Finished(g), res |-> Stop]

\* next() on a ringscan generator
ringscan_next(g) ==
  IF g.pc = "created" THEN
    IF g.r1 < 0 \/ g.r2 < 0 THEN [gen |-> Finished(g), res |-> Raise("ValueError")]
    ELSE IF ~callable(g.metric) THEN [gen |-> Finished(g), res |-> Raise("TypeError")]
    ELSE LET rstep == IF g.r2 >= g.r1 THEN 1 ELSE -1
         IN  ring_for([g EXCEPT !.direction = 0, !.rstep = rstep], g.r1)
  ELSE IF g.pc = "yield0" THEN ring_for(g, g.distance + g.rstep)
  ELSE IF g.pc = "yield1" THEN
    IF g.nextpoint = g.initial
    THEN ring_for([g EXCEPT !.current = g.nextpoint], g.distance + g.rstep)
    ELSE ring_while([g EXCEPT !.current = g.nextpoint])
  ELSE [gen |-> g, res |-> Stop]

Radii == -1..MaxRadius
Metrics == {[kind |-> "chebyshev", c |-> 0], [kind |-> "manhattan", c |-> 0],
            [kind |-> "notcallable", c |-> 0]}
           \cup [kind : {"const", "spot"}, c : 1..MaxRadius]

RingArgs == [x0 : 0..1, y0 : -1..0, r1 : Radii, r2 : Radii, metric : Metrics]

\* pulls that let the longest scan of the bounds (chebyshev, radii 0..MaxRadius) end
MaxRingPulls == 4 * MaxRadius * (MaxRadius + 1) + 1 + MaxRepull

InitRing ==
  /\ \E a \in RingArgs : scan = ringscan(a.x0, a.y0, a.r1, a.r2, a.metric)
  /\ head = NoObj
  /\ out = <<>>
  /\ err = "none"

\* the consumer pulls the ringscan generator
ringscan_pull ==
  /\ head = NoObj
  /\ scan.kind = "ringscan"
  /\ CanPull
  /\ Len(out) < MaxRingPulls
  /\ LET r == ringscan_next(scan)
     IN  /\ scan' = r.gen
         /\ out' = Append(out, r.res)
  /\ UNCHANGED <<head, err>>

NextRing == ringscan_pull

SpecRing == InitRing /\ [][NextRing]_vars

\* number of points of the closed walk at radius r: per*r, the centre alone for r = 0
RingLen(per, r) == IF r = 0 THEN 1 ELSE per * r

\* number of points of the walks at radii a..(b-1)
RECURSIVE RingsLen(_, _, _)
RingsLen(per, a, b) == IF a >= b THEN 0 ELSE RingLen(per, a) + RingsLen(per, a + 1, b)

EightNeighbours(p, q) == Max2(Abs(p.x - q.x), Abs(p.y - q.y)) = 1

\* C9: ringscan with the chebyshev (manhattan) metric and 0 <= r1 <= r2 emits
\* one closed walk per radius r1..r2 in turn: the centre once for radius 0;
\* for r >= 1 a walk of 8r (4r) points that starts at (x0, y0+r), visits every
\* grid point at distance r exactly once, moves between 8-neighbours and
\* closes on its starting point.
C9_RingClosedWalks ==
  (scan.kind = "ringscan" /\ scan.metric.kind \in {"chebyshev", "manhattan"}
     /\ 0 <= scan.r1 /\ scan.r1 <= scan.r2) =>
    LET pts == PointsOf(out)
        per == IF scan.metric.kind = "chebyshev" THEN 8 ELSE 4
        c   == <<scan.x0, scan.y0>>
        first(r) == RingsLen(per, scan.r1, r) + 1
        last(r)  == RingsLen(per, scan.r1, r + 1)
    IN
    /\ NoErrorIn(out)
    /\ Len(pts) <= RingsLen(per, scan.r1, scan.r2 + 1)
    /\ scan.pc = "done" => Len(pts) = RingsLen(per, scan.r1, scan.r2 + 1)
    /\ \A r \in scan.r1..scan.r2 :
         /\ first(r) <= Len(pts) => pts[first(r)] = Pt(scan.x0, scan.y0 + r)
         /\ \A i \in first(r)..Min2(last(r), Len(pts)) :
              /\ call_metric(scan.metric, c, <<pts[i].x, pts[i].y>>) = r
              /\ \A j \in first(r)..(i - 1) : pts[j] # pts[i]
              /\ i > first(r) => EightNeighbours(pts[i - 1], pts[i])
         /\ (r >= 1 /\ last(r) <= Len(pts)) =>
              /\ EightNeighbours(pts[last(r)], pts[first(r)])
              /\ \A x \in (scan.x0 - r)..(scan.x0 + r), y \in (scan.y0 - r)..(scan.y0 + r) :
                   call_metric(scan.metric, c, <<x, y>>) = r =>
                     \E i \in first(r)..last(r) : pts[i] = Pt(x, y)

\* ringscan(0, 0, 0, 2, manhattan) has run to its end with 13 points
C9_Witness ==
  /\ scan.kind = "ringscan" /\ scan.metric.kind = "manhattan"
  /\ scan.x0 = 0 /\ scan.y0 = 0 /\ scan.r1 = 0 /\ scan.r2 = 2
  /\ scan.pc = "done" /\ Len(PointsOf(out)) = 13

\* the point and radius from which the next pull of a ringscan tries its
\* steps (radius -1: the scan has no radius left or has not validated)
RingResume(g) ==
  LET nd == g.distance + g.rstep IN
  IF g.pc = "created" THEN
    IF g.r1 >= 0 /\ g.r2 >= 0 /\ callable(g.metric)
    THEN [p |-> <<g.x0, g.y0 + g.r1>>, r |-> g.r1] ELSE [p |-> <<0, 0>>, r |-> -1]
  ELSE IF g.pc = "yield1" /\ g.nextpoint # g.initial THEN [p |-> g.nextpoint, r |-> g.distance]
  ELSE IF g.pc \in {"yield0", "yield1"} /\ InRange(nd, g.r2 + g.rstep, g.rstep)
  THEN [p |-> <<g.x0, g.y0 + nd>>, r |-> nd]
  ELSE [p |-> <<0, 0>>, r |-> -1]

\* every one of the 8 directions leads from there to a point whose distance
\* differs from the target radius
RingStuck(g) ==
  LET t == RingResume(g) IN
  /\ t.r >= 1
  /\ \A d \in 0..7 :
       call_metric(g.metric, <<g.x0, g.y0>>,
                   <<t.p[1] + steps(d)[1], t.p[2] + steps(d)[2]>>) # t.r

\* C10: when the 8 step attempts all fail the metric test the pull signals
\* exhaustion and so does every later pull (no point for that radius nor for a
\* later one); with a constant metric that equals no scanned radius >= 1 and
\* r1 = 0 the output is exactly the centre.
C10_RingAbandonEndsScan ==
  /\ [][(scan.kind = "ringscan" /\ (RingStuck(scan) \/ scan.pc = "done"))
          => (out' = Append(out, Stop) /\ scan'.pc = "done")]_vars
  /\ [](( /\ scan.kind = "ringscan" /\ scan.metric.kind = "const"
          /\ scan.r1 = 0 /\ scan.r2 >= 1
          /\ scan.metric.c \notin 1..scan.r2) =>
        /\ PointsOf(out) \in {<<>>, <<Pt(scan.x0, scan.y0)>>}
        /\ Len(out) >= 1 => out[1] = Pt(scan.x0, scan.y0)
        /\ Len(out) >= 2 => scan.pc = "done")

\* a walk that had emitted a point failed its 8 attempts with a radius still
\* to scan, and the consumer pulled again
C10_Witness ==
  /\ scan.kind = "ringscan" /\ scan.ntrys = nsteps /\ scan.pc = "done"
  /\ scan.distance >= 1 /\ scan.distance < scan.r2
  /\ Len(PointsOf(out)) >= 1 /\ NonPoints(out) >= 2

\* C19: ringscan terminates for every callable metric: for all centres, all
\* radii 0 <= r1, r2 <= R and every metric function, constant metrics
\* included, the generator signals exhaustion after finitely many points (here:
\* within MaxRingPulls pulls, which exhaust the longest closed walks of the
\* radii scanned), because each ring walk either returns to its starting point
\* or fails 8 consecutive directions.
C19_RingscanTerminates ==
  (scan.kind = "ringscan" /\ callable(scan.metric) /\ scan.r1 >= 0 /\ scan.r2 >= 0
     /\ Len(out) = MaxRingPulls) =>
    scan.pc = "done"

----------------------------------------------------------------------------
(* Numbers in a chain.  Transformations handle ints and floats alike; in a   *)
(* chain a coordinate v is carried as the integer v * Unit, which is exact   *)
(* for the ints of the integer generators and for six decimal places.        *)

Unit == 1000000

N(v) == v * Unit

Micro(res) == IF IsPt(res) THEN Pt(N(res.x), N(res.y)) ELSE res

\* int(round(v)): to the nearest integer, a tie to the even one
round(v) ==
  LET w == v \div Unit
      f == v % Unit
  IN  IF 2 * f < Unit THEN w
      ELSE IF 2 * f > Unit THEN w + 1
      ELSE IF w % 2 = 0 THEN w ELSE w + 1

\* sys.maxsize, scaled so that maxsize * Unit stays a 32-bit integer
maxsize == 2147

\* the handler asked for more random draws than one invocation is given
Blocked == [tag |-> "blocked", x |-> 0, y |-> 0]

\* the draws one handler invocation may consume, in the order it makes them
Tapes(n) == [1..n -> 0..(RandMax - 1)]

----------------------------------------------------------------------------
(* walkscan.  Probabilities are carried in quarters (1 is 0.25); the draw w  *)
(* stands for random.random() = (2w+1)/(2*RandMax).                          *)

\* the call walkscan(x0, y0, xn, xp, yn, yp): a generator object, no body run yet
walkscan(x0, y0, xn, xp, yn, yp) ==
  [kind |-> "walkscan", pc |-> "created", x0 |-> x0, y0 |-> y0,
   xn |-> xn, xp |-> xp, yn |-> yn, yp |-> yp, x |-> 0, y |-> 0, hist |-> <<>>]

\* the random step: probability <= cxn, <= cxp, <= cyn, else
walk_step(g, w) ==
  LET total == g.xp + g.xn + g.yp + g.yn
      p == (2 * w + 1) * total
      q == 2 * RandMax
  IN  IF p <= q * g.xn THEN <<g.x - 1, g.y>>
      ELSE IF p <= q * (g.xn + g.xp) THEN <<g.x + 1, g.y>>
      ELSE IF p <= q * (g.xn + g.xp + g.yn) THEN <<g.x, g.y - 1>>
      ELSE <<g.x, g.y + 1>>

\* next() on a walkscan generator, rnd the draws still available
walkscan_next(g, rnd) ==
  IF g.pc = "created" THEN
    IF g.xn < 0 \/ g.xp < 0 \/ g.yn < 0 \/ g.yp < 0
    THEN [gen |-> Finished(g), res |-> Raise("ValueError"), rnd |-> rnd]
    ELSE IF g.xp + g.xn + g.yp + g.yn = 0
    THEN [gen |-> Finished(g), res |-> Raise("ZeroDivisionError"), rnd |-> rnd]
    ELSE [gen |-> [g EXCEPT !.pc = "yield", !.x = g.x0, !.y = g.y0],
          res |-> Pt(g.x0, g.y0), rnd |-> rnd]
  ELSE IF g.pc = "yield" THEN
    IF rnd = <<>> THEN [gen |-> g, res |-> Blocked, rnd |-> rnd]
    ELSE LET q == walk_step(g, Head(rnd))
         IN  [gen |-> [g EXCEPT !.x = q[1], !.y = q[2]],
              res |-> Pt(q[1], q[2]), rnd |-> Tail(rnd)]
  ELSE [gen |-> g, res |-> Stop, rnd |-> rnd]

----------------------------------------------------------------------------
(* circlescan.  The generator yields floats: its points are carried in       *)
(* micro-units.  The products a*x + a*y are exact in micro-units; the floats  *)
(* differ from them by rounding errors far below the distance of any of them  *)
(* to a tie of round().                                                       *)

\* the call circlescan(x0, y0, r1, r2): a generator object, no body run yet
circlescan(x0, y0, r1, r2) ==
  [kind |-> "circlescan", pc |-> "created", x0 |-> x0, y0 |-> y0, r1 |-> r1, r2 |-> r2,
   distance |-> 0, angle |-> 0, x |-> 0, y |-> 0, d |-> 0,
   previous |-> <<>>, current |-> <<>>, hist |-> <<>>]

\* a = 0.707107
a == 707107

\* rotations[angle], entries in micro-units
rotations(angle) ==
  CASE angle = 0 -> <<<<Unit, 0>>, <<0, Unit>>>>
    [] angle = 1 -> <<<<a, a>>, <<-a, a>>>>
    [] angle = 2 -> <<<<0, Unit>>, <<-Unit, 0>>>>
    [] angle = 3 -> <<<<-a, a>>, <<-a, -a>>>>
    [] angle = 4 -> <<<<-Unit, 0>>, <<0, -Unit>>>>
    [] angle = 5 -> <<<<-a, -a>>, <<a, -a>>>>
    [] angle = 6 -> <<<<0, -Unit>>, <<Unit, 0>>>>
    [] angle = 7 -> <<<<a, -a>>, <<a, a>>>>

nangles == 8

circle_rstep(g) == IF g.r2 >= g.r1 THEN 1 ELSE -1

\* xr and yr of the octant point (x, y)
circle_xr(g) == N(g.x0) + rotations(g.angle)[1][1] * g.x + rotations(g.angle)[1][2] * g.y
circle_yr(g) == N(g.y0) + rotations(g.angle)[2][1] * g.x + rotations(g.angle)[2][2] * g.y

\* point = (int(round(xr)), int(round(yr)))
circle_point(g) == <<round(circle_xr(g)), round(circle_yr(g))>>

InSeq(e, h) == \E i \in DOMAIN h : h[i] = e

\* a test that forgets the previous diameter
circle_seen_never(g) == FALSE

\* point in previous
circle_seen(g) == InSeq(circle_point(g), g.previous)

\* "Move pixel according to circle constraint"
circle_move(g) ==
  IF g.d < 0 THEN [g EXCEPT !.d = g.d + 3 + 2 * g.x, !.x = g.x + 1]
  ELSE [g EXCEPT !.d = g.d + 5 - 2 * (g.y - g.x), !.y = g.y - 1, !.x = g.x + 1]

\* the first point of an octant
circle_octant(g, angle) ==
  [g EXCEPT !.angle = angle, !.x = 0, !.y = g.distance, !.d = 1 - g.distance]

RECURSIVE circle_for(_, _)

\* the loop "while x < y" of the octant g.angle, and the octants after it
RECURSIVE circle_while(_)
circle_while(g) ==
  IF g.x < g.y THEN
    IF ~circle_seen(g)
    THEN [gen |-> [g EXCEPT !.pc = "yield1", !.current = Append(@, circle_point(g))],
          res |-> Pt(circle_xr(g), circle_yr(g))]
    ELSE circle_while(circle_move(g))
  ELSE IF g.angle + 1 < nangles THEN circle_while(circle_octant(g, g.angle + 1))
  ELSE circle_for([g EXCEPT !.previous = g.current], g.distance + circle_rstep(g))

\* the loop "for distance in range(r1, r2 + rstep, rstep)" from `distance` on
circle_for(g, distance) ==
  IF ~InRange(distance, g.r2 + circle_rstep(g), circle_rstep(g))
  THEN [gen |-> Finished(g), res |-> Stop]
  ELSE IF distance = 0
  THEN [gen |-> [g EXCEPT !.pc = "yield0", !.distance = 0], res |-> Pt(N(g.x0), N(g.y0))]
  ELSE circle_while(circle_octant([g EXCEPT !.distance = distance, !.current = <<>>], 0))

\* next() on a circlescan generator
circlescan_next(g) ==
  IF g.pc = "created" THEN
    IF g.r1 < 0 \/ g.r2 < 0 THEN [gen |-> Finished(g), res |-> Raise("ValueError")]
    ELSE circle_for(g, g.r1)
  ELSE IF g.pc = "yield0" THEN circle_for(g, g.distance + circle_rstep(g))
  ELSE IF g.pc = "yield1" THEN circle_while(circle_move(g))
  ELSE [gen |-> Finished(g), res |-> Stop]

----------------------------------------------------------------------------
(* next(self.scan): the pull a transformation makes on the generator it wraps *)

\* the generator's field hist records the points it has handed over so far
\* r is what the generator's next() gave, rnd the draws left after it
Handed(r, rnd) ==
  [gen |-> IF IsPt(r.res) THEN [r.gen EXCEPT !.hist = Append(@, Micro(r.res))] ELSE r.gen,
   res |-> Micro(r.res), rnd |-> rnd]

\* walkscan is the one generator that consumes draws
HandedDraws(r) == Handed(r, r.rnd)

\* circlescan yields floats, which are in micro-units already
HandedFloats(r, rnd) ==
  [gen |-> IF IsPt(r.res) THEN [r.gen EXCEPT !.hist = Append(@, r.res)] ELSE r.gen,
   res |-> r.res, rnd |-> rnd]

next_scan(g, rnd) ==
  CASE g.kind = "gridscan"    -> Handed(gridscan_next(g), rnd)
    [] g.kind = "snakescan"   -> Handed(snakescan_next(g), rnd)
    [] g.kind = "circlescan"  -> HandedFloats(circlescan_next(g), rnd)
    [] g.kind = "hilbertscan" -> Handed(hilbertscan_next(g), rnd)
    [] g.kind = "ringscan"    -> Handed(ringscan_next(g), rnd)
    [] g.kind = "walkscan"    -> HandedDraws(walkscan_next(g, rnd))

\* the generators a chain is built on
ChainSources == {"gridscan", "snakescan", "circlescan", "hilbertscan", "ringscan", "walkscan"}

----------------------------------------------------------------------------
(* Transformations.  T_init is the constructor: it returns the object, or    *)
(* the exception it raises.  T_next(o, g, rnd) is o.__next__() with g the    *)
(* wrapped generator: it returns the object and the generator as the pull    *)
(* leaves them, the result of the pull and the draws left.  T_got(o, u) is   *)
(* the part of __next__ that follows next(self.scan), u being what that      *)
(* upstream pull gave.                                                       *)

Made(o) == [obj |-> o, err |-> "none"]
Failed(e) == [obj |-> NoObj, err |-> e]

\* the pull ends with result res after the upstream pull u
Ret(o, u, res) == [obj |-> o, gen |-> u.gen, res |-> res, rnd |-> u.rnd]

(* clip *)

clip_init(minx, maxx, miny, maxy, predicate, abort) ==
  Made([kind |-> "clip", minx |-> minx, maxx |-> maxx, miny |-> miny, maxy |-> maxy,
        predicate |-> predicate, abort |-> abort])

\* the predicates tried: the one of the tests (y >= 1) and x <= y
call_predicate(predicate, x, y) ==
  CASE predicate = "ypos"  -> y >= N(1)
    [] predicate = "below" -> x <= y

\* a boundary test that forgets the upper bounds
clip_outside_lower(o, x, y) == x < N(o.minx) \/ y < N(o.miny)

\* x < minx or x > maxx or y < miny or y > maxy
clip_outside(o, x, y) ==
  x < N(o.minx) \/ x > N(o.maxx) \/ y < N(o.miny) \/ y > N(o.maxy)

RECURSIVE clip_next(_, _, _)
clip_got(o, u) ==
  IF ~IsPt(u.res) THEN Ret(o, u, u.res)
  ELSE IF o.predicate # "none" /\ ~call_predicate(o.predicate, u.res.x, u.res.y)
  THEN IF o.abort THEN Ret(o, u, Stop) ELSE clip_next(o, u.gen, u.rnd)
  ELSE IF clip_outside(o, u.res.x, u.res.y)
  THEN IF o.abort THEN Ret(o, u, Stop) ELSE clip_next(o, u.gen, u.rnd)
  ELSE Ret(o, u, u.res)

clip_next(o, g, rnd) == clip_got(o, next_scan(g, rnd))

(* reflection *)

reflection_init(rx, ry) == Made([kind |-> "reflection", rx |-> rx, ry |-> ry])

reflection_got(o, u) ==
  IF ~IsPt(u.res) THEN Ret(o, u, u.res)
  ELSE Ret(o, u, Pt(IF o.rx THEN -u.res.x ELSE u.res.x,
                    IF o.ry THEN -u.res.y ELSE u.res.y))

reflection_next(o, g, rnd) == reflection_got(o, next_scan(g, rnd))

(* rotation: the angle is in degrees, a multiple of 45; cos and sin are      *)
(* carried to six decimal places                                             *)

rotation_init(angle) == Made([kind |-> "rotation", angle |-> angle])

cos_micro(angle) ==
  CASE angle % 360 = 0 -> 1000000
    [] angle % 360 \in {45, 315} -> 707107
    [] angle % 360 \in {90, 270} -> 0
    [] angle % 360 \in {135, 225} -> -707107
    [] angle % 360 = 180 -> -1000000

sin_micro(angle) == cos_micro(angle + 270)

\* c * v for c a cosine or sine and v a coordinate
MulMicro(c, v) == c * (v \div Unit) + (c * ((v % Unit) \div 1000)) \div 1000

rotation_got(o, u) ==
  LET ca == cos_micro(o.angle)
      sa == sin_micro(o.angle)
  IN  IF ~IsPt(u.res) THEN Ret(o, u, u.res)
      ELSE Ret(o, u, Pt(MulMicro(ca, u.res.x) - MulMicro(sa, u.res.y),
                        MulMicro(sa, u.res.x) + MulMicro(ca, u.res.y)))

rotation_next(o, g, rnd) == rotation_got(o, next_scan(g, rnd))

(* sample: the probability is carried in halves (2 is 1.0) *)

sample_init(probability) ==
  IF probability < 0 \/ probability > 2 THEN Failed("ValueError")
  ELSE Made([kind |-> "sample", probability |-> probability])

RECURSIVE sample_next(_, _, _)

\* the pull v, returning the point res in place of its own
Stale(v, res) == IF IsPt(v.res) THEN [v EXCEPT !.res = res] ELSE v

\* a sample that returns the first point it pulled, not the one it accepted
sample_got_first(o, u) ==
  IF ~IsPt(u.res) THEN Ret(o, u, u.res)
  ELSE IF o.probability = 2 THEN Ret(o, u, u.res)
  ELSE IF u.rnd = <<>> THEN Ret(o, u, Blocked)
  ELSE IF 2 * Head(u.rnd) + 1 <= o.probability * RandMax
       THEN [obj |-> o, gen |-> u.gen, res |-> u.res, rnd |-> Tail(u.rnd)]
       ELSE Stale(sample_next(o, u.gen, Tail(u.rnd)), u.res)

sample_got(o, u) ==
  IF ~IsPt(u.res) THEN Ret(o, u, u.res)
  ELSE IF o.probability = 2 THEN Ret(o, u, u.res)
  ELSE IF u.rnd = <<>> THEN Ret(o, u, Blocked)
  ELSE IF 2 * Head(u.rnd) + 1 <= o.probability * RandMax
       THEN [obj |-> o, gen |-> u.gen, res |-> u.res, rnd |-> Tail(u.rnd)]
       ELSE sample_next(o, u.gen, Tail(u.rnd))

sample_next(o, g, rnd) == sample_got(o, next_scan(g, rnd))

(* scale *)

scale_init(sx, sy) ==
  IF sx <= 0 THEN Failed("ValueError")
  ELSE IF sy <= 0 THEN Failed("ValueError")
  ELSE Made([kind |-> "scale", sx |-> sx, sy |-> sy])

\* a scale that uses sx for both coordinates
scale_got_sx(o, u) ==
  IF ~IsPt(u.res) THEN Ret(o, u, u.res)
  ELSE Ret(o, u, Pt(o.sx * u.res.x, o.sx * u.res.y))

scale_got(o, u) ==
  IF ~IsPt(u.res) THEN Ret(o, u, u.res)
  ELSE Ret(o, u, Pt(o.sx * u.res.x, o.sy * u.res.y))

scale_next(o, g, rnd) == scale_got(o, next_scan(g, rnd))

(* skip *)

skip_init(start, stop, step) ==
  IF start < 0 THEN Failed("ValueError")
  ELSE IF stop < 0 THEN Failed("ValueError")
  ELSE IF stop < start THEN Failed("ValueError")
  ELSE IF step <= 0 THEN Failed("ValueError")
  ELSE Made([kind |-> "skip", start |-> start, stop |-> stop, step |-> step, index |-> -1])

\* a stop test that ends one index early
skip_past_stop_early(o, index) == index >= o.stop

\* a stop test that ends one index late
skip_past_stop_late(o, index) == index > o.stop + 1

\* self.index > self.stop
skip_past_stop(o, index) == index > o.stop

RECURSIVE skip_next(_, _, _)
skip_got(o, u) ==
  IF ~IsPt(u.res) THEN Ret(o, u, u.res)
  ELSE LET index == o.index + 1
           o1 == [o EXCEPT !.index = index]
       IN  IF index < o.start THEN skip_next(o1, u.gen, u.rnd)
           ELSE IF skip_past_stop(o, index) THEN Ret(o1, u, Stop)
           ELSE IF (index - o.start) % o.step # 0 THEN skip_next(o1, u.gen, u.rnd)
           ELSE Ret(o1, u, u.res)

skip_next(o, g, rnd) == skip_got(o, next_scan(g, rnd))

(* snap *)

snap_init == Made([kind |-> "snap"])

snap_got(o, u) ==
  IF ~IsPt(u.res) THEN Ret(o, u, u.res)
  ELSE Ret(o, u, Pt(N(round(u.res.x)), N(round(u.res.y))))

snap_next(o, g, rnd) == snap_got(o, next_scan(g, rnd))

(* swap *)

swap_init == Made([kind |-> "swap"])

swap_got(o, u) ==
  IF ~IsPt(u.res) THEN Ret(o, u, u.res)
  ELSE Ret(o, u, Pt(u.res.y, u.res.x))

swap_next(o, g, rnd) == swap_got(o, next_scan(g, rnd))

(* translation *)

translation_init(tx, ty) == Made([kind |-> "translation", tx |-> tx, ty |-> ty])

translation_got(o, u) ==
  IF ~IsPt(u.res) THEN Ret(o, u, u.res)
  ELSE Ret(o, u, Pt(u.res.x + N(o.tx), u.res.y + N(o.ty)))

translation_next(o, g, rnd) == translation_got(o, next_scan(g, rnd))

(* reservoir: the constructor drains the generator.  The field npoints of    *)
(* the object records the argument of the constructor, which the code does   *)
(* not keep.                                                                 *)

\* a shuffle that copies x[j] to x[i] instead of exchanging them
RECURSIVE shuffle_copy(_, _, _)
shuffle_copy(x, i, rnd) ==
  IF i < 1 THEN [x |-> x, rnd |-> rnd, blocked |-> FALSE]
  ELSE IF rnd = <<>> THEN [x |-> x, rnd |-> rnd, blocked |-> TRUE]
  ELSE shuffle_copy([x EXCEPT ![i + 1] = x[(Head(rnd) % (i + 1)) + 1]], i - 1, Tail(rnd))

\* random.shuffle(x) from position i down: j = randbelow(i+1), exchange x[i], x[j]
\* (positions counted from 0 as in the code, sequences from 1)
RECURSIVE shuffle(_, _, _)
shuffle(x, i, rnd) ==
  IF i < 1 THEN [x |-> x, rnd |-> rnd, blocked |-> FALSE]
  ELSE IF rnd = <<>> THEN [x |-> x, rnd |-> rnd, blocked |-> TRUE]
  ELSE LET j == Head(rnd) % (i + 1)
       IN  shuffle([x EXCEPT ![i + 1] = x[j + 1], ![j + 1] = x[i + 1]], i - 1, Tail(rnd))

\* the loop "for index, point in enumerate(scan)" from `index` on, followed
\* by the shuffle
RECURSIVE reservoir_fill(_, _, _, _, _)

\* a constructor that stops pulling as soon as the reservoir is full
reservoir_got_full(npoints, reservoir, index, u) ==
  IF u.res.tag = "blocked" THEN
    [obj |-> NoObj, err |-> "none", gen |-> u.gen, blocked |-> TRUE]
  ELSE IF ~IsPt(u.res) \/ index + 1 >= npoints THEN
    [obj |-> [kind |-> "reservoir", count |-> 0, npoints |-> npoints,
              reservoir |-> IF IsPt(u.res) THEN Append(reservoir, u.res) ELSE reservoir],
     err |-> "none", gen |-> u.gen, blocked |-> FALSE]
  ELSE reservoir_fill(npoints, Append(reservoir, u.res), index + 1, u.gen, u.rnd)

reservoir_got(npoints, reservoir, index, u) ==
  IF u.res.tag = "stop" THEN
    LET sh == shuffle(reservoir, Len(reservoir) - 1, u.rnd)
    IN  [obj |-> [kind |-> "reservoir", reservoir |-> sh.x, count |-> 0,
                  npoints |-> npoints],
         err |-> "none", gen |-> u.gen, blocked |-> sh.blocked]
  ELSE IF u.res.tag = "blocked" THEN
    [obj |-> NoObj, err |-> "none", gen |-> u.gen, blocked |-> TRUE]
  ELSE IF ~IsPt(u.res) THEN
    [obj |-> NoObj, err |-> u.res.tag, gen |-> u.gen, blocked |-> FALSE]
  ELSE IF index < npoints THEN
    reservoir_fill(npoints, Append(reservoir, u.res), index + 1, u.gen, u.rnd)
  ELSE IF u.rnd = <<>> THEN
    [obj |-> NoObj, err |-> "none", gen |-> u.gen, blocked |-> TRUE]
  ELSE LET j == Head(u.rnd) % (index + 1)
       IN  reservoir_fill(npoints,
                          IF j < npoints THEN [reservoir EXCEPT ![j + 1] = u.res]
                          ELSE reservoir,
                          index + 1, u.gen, Tail(u.rnd))

reservoir_fill(npoints, reservoir, index, g, rnd) ==
  reservoir_got(npoints, reservoir, index, next_scan(g, rnd))

reservoir_init(g, npoints, rnd) ==
  IF npoints <= 0 THEN [obj |-> NoObj, err |-> "ValueError", gen |-> g, blocked |-> FALSE]
  ELSE reservoir_fill(npoints, <<>>, 0, g, rnd)

\* reservoir.__next__ does not pull the generator
reservoir_next(o, g, rnd) ==
  IF o.count < Len(o.reservoir)
  THEN [obj |-> [o EXCEPT !.count = o.count + 1], gen |-> g,
        res |-> o.reservoir[o.count + 1], rnd |-> rnd]
  ELSE [obj |-> o, gen |-> g, res |-> Stop, rnd |-> rnd]

----------------------------------------------------------------------------
(* The chain: a generator function is called, a transformation is            *)
(* constructed around the generator, the consumer pulls the transformation.  *)

Init ==
  /\ scan = NoGen
  /\ head = NoObj
  /\ out = <<>>
  /\ err = "none"

CanCall == scan = NoGen /\ err = "none"

gridscan_call ==
  /\ CanCall
  /\ \E xf \in 0..MaxChainX, yf \in 0..MaxChainY, stepx \in 0..1, stepy \in 0..1 :
       scan' = gridscan(0, 0, xf, yf, stepx, stepy)
  /\ UNCHANGED <<head, out, err>>

snakescan_call ==
  /\ CanCall
  /\ \E xf \in 0..MaxChainX, yf \in 0..MaxChainY : scan' = snakescan(0, 0, xf, yf)
  /\ UNCHANGED <<head, out, err>>

hilbertscan_call ==
  /\ CanCall
  /\ \E distance \in 0..4, pep479 \in BOOLEAN : scan' = hilbertscan(1, distance, pep479)
  /\ UNCHANGED <<head, out, err>>

ringscan_call ==
  /\ CanCall
  /\ \E r1 \in -1..1, r2 \in -1..1,
        m \in {[kind |-> k, c |-> 0] : k \in {"chebyshev", "manhattan", "notcallable"}} :
       scan' = ringscan(0, 0, r1, r2, m)
  /\ UNCHANGED <<head, out, err>>

circlescan_call ==
  /\ CanCall
  /\ \E r1 \in -1..1, r2 \in -1..1 : scan' = circlescan(0, 0, r1, r2)
  /\ UNCHANGED <<head, out, err>>

\* a walk that steps left, right or up (yn = 0), or has an invalid xn
walkscan_call ==
  /\ CanCall
  /\ \E xn \in {-1, 1} : scan' = walkscan(0, 0, xn, 1, 0, 1)
  /\ UNCHANGED <<head, out, err>>

\* a transformation is constructed once, around a generator nobody has pulled
CanWrap == scan.kind \in ChainSources /\ scan.pc = "created" /\ head = NoObj /\ err = "none"

Constructed(c) ==
  /\ head' = c.obj
  /\ err' = c.err
  /\ UNCHANGED <<scan, out>>

\* the bounds <<minx, maxx, miny, maxy>> tried: the defaults, those of the
\* tests and a closed box
ClipBounds == {<<-maxsize, maxsize, -maxsize, maxsize>>, <<1, maxsize, 1, maxsize>>,
               <<-maxsize, maxsize, -maxsize, 1>>, <<-maxsize, 1, -maxsize, maxsize>>,
               <<0, 1, 0, 1>>}

clip_construct ==
  /\ CanWrap
  /\ \E b \in ClipBounds, predicate \in {"none", "ypos", "below"}, abort \in BOOLEAN :
       Constructed(clip_init(b[1], b[2], b[3], b[4], predicate, abort))

reflection_construct ==
  /\ CanWrap
  /\ \E rx \in BOOLEAN, ry \in BOOLEAN : Constructed(reflection_init(rx, ry))

rotation_construct ==
  /\ CanWrap
  /\ \E angle \in {0, 90, 180, 270} : Constructed(rotation_init(angle))

sample_construct ==
  /\ CanWrap
  /\ \E probability \in -1..3 : Constructed(sample_init(probability))

scale_construct ==
  /\ CanWrap
  /\ \E sx \in 0..2, sy \in 0..2 : Constructed(scale_init(sx, sy))

skip_construct ==
  /\ CanWrap
  /\ \E start \in -1..2, stop \in {-1, 0, 1, 2, 3, maxsize}, step \in 0..2 :
       Constructed(skip_init(start, stop, step))

snap_construct == CanWrap /\ Constructed(snap_init)

swap_construct == CanWrap /\ Constructed(swap_init)

translation_construct ==
  /\ CanWrap
  /\ \E tx \in {0, 1}, ty \in {-1, 0} : Constructed(translation_init(tx, ty))

\* reservoir's constructor leaves the generator drained
Drained(c) ==
  /\ ~c.blocked
  /\ head' = c.obj
  /\ err' = c.err
  /\ scan' = c.gen
  /\ UNCHANGED out

reservoir_construct ==
  /\ CanWrap
  /\ \E npoints \in 0..2, rnd \in Tapes(MaxDraws) :
       Drained(reservoir_init(scan, npoints, rnd))

\* the draws a pull of the head can need
DrawsOf(o, g) ==
  IF o.kind \in {"clip", "skip"} /\ g.kind = "walkscan" THEN MaxDraws
  ELSE IF o.kind = "sample" /\ (g.kind = "walkscan" \/ o.probability # 2) THEN MaxDraws
  ELSE IF g.kind = "walkscan" THEN 1
  ELSE 0

\* the consumer pulls the head, whose __next__ is the operator next(o, g, rnd)
Pulled(r) ==
  /\ r.res.tag # "blocked"
  /\ head' = r.obj
  /\ scan' = r.gen
  /\ out' = Append(out, r.res)
  /\ UNCHANGED err

CanPullHead(kind) == head.kind = kind /\ CanPull /\ Len(out) < MaxChainPulls

clip_pull ==
  /\ CanPullHead("clip")
  /\ \E rnd \in Tapes(DrawsOf(head, scan)) : Pulled(clip_next(head, scan, rnd))

reflection_pull ==
  /\ CanPullHead("reflection")
  /\ \E rnd \in Tapes(DrawsOf(head, scan)) : Pulled(reflection_next(head, scan, rnd))

reservoir_pull ==
  /\ CanPullHead("reservoir")
  /\ Pulled(reservoir_next(head, scan, <<>>))

rotation_pull ==
  /\ CanPullHead("rotation")
  /\ \E rnd \in Tapes(DrawsOf(head, scan)) : Pulled(rotation_next(head, scan, rnd))

sample_pull ==
  /\ CanPullHead("sample")
  /\ \E rnd \in Tapes(DrawsOf(head, scan)) : Pulled(sample_next(head, scan, rnd))

scale_pull ==
  /\ CanPullHead("scale")
  /\ \E rnd \in Tapes(DrawsOf(head, scan)) : Pulled(scale_next(head, scan, rnd))

skip_pull ==
  /\ CanPullHead("skip")
  /\ \E rnd \in Tapes(DrawsOf(head, scan)) : Pulled(skip_next(head, scan, rnd))

snap_pull ==
  /\ CanPullHead("snap")
  /\ \E rnd \in Tapes(DrawsOf(head, scan)) : Pulled(snap_next(head, scan, rnd))

swap_pull ==
  /\ CanPullHead("swap")
  /\ \E rnd \in Tapes(DrawsOf(head, scan)) : Pulled(swap_next(head, scan, rnd))

translation_pull ==
  /\ CanPullHead("translation")
  /\ \E rnd \in Tapes(DrawsOf(head, scan)) : Pulled(translation_next(head, scan, rnd))

Next ==
  \/ gridscan_call \/ snakescan_call \/ hilbertscan_call \/ ringscan_call \/ circlescan_call \/ walkscan_call
  \/ clip_construct \/ reflection_construct \/ reservoir_construct \/ rotation_construct
  \/ sample_construct \/ scale_construct \/ skip_construct \/ snap_construct
  \/ swap_construct \/ translation_construct
  \/ clip_pull \/ reflection_pull \/ reservoir_pull \/ rotation_pull \/ sample_pull
  \/ scale_pull \/ skip_pull \/ snap_pull \/ swap_pull \/ translation_pull

Spec == Init /\ [][Next]_vars

----------------------------------------------------------------------------
(* circlescan pulled to exhaustion, by the consumer or through snap *)

CircleArgs == [x0 : 0..1, y0 : -1..0, r1 : -1..MaxCircle, r2 : -1..MaxCircle]

InitCircle ==
  /\ \E c \in CircleArgs : scan = circlescan(c.x0, c.y0, c.r1, c.r2)
  /\ head \in {NoObj, snap_init.obj}
  /\ out = <<>>
  /\ err = "none"

\* the consumer pulls the circlescan generator
circlescan_pull ==
  /\ head = NoObj
  /\ scan.kind = "circlescan"
  /\ CanPull
  /\ Got(circlescan_next(scan))

\* the consumer pulls snap(circlescan(...))
snap_circlescan_pull ==
  /\ head.kind = "snap"
  /\ scan.kind = "circlescan"
  /\ CanPull
  /\ Pulled(snap_next(head, scan, <<>>))

NextCircle == circlescan_pull \/ snap_circlescan_pull

SpecCircle == InitCircle /\ [][NextCircle]_vars

\* the grid cell of a point in micro-units
Cell(p) == <<round(p.x), round(p.y)>>

\* the grid cells of the points of a history, in order
Cells(h) == [i \in DOMAIN PointsOf(h) |-> Cell(PointsOf(h)[i])]

\* the cell lies at distance r of the origin, to the nearest integer
AtRadius(c, r) ==
  /\ 4 * (c[1] * c[1] + c[2] * c[2]) >= (2 * r - 1) * (2 * r - 1)
  /\ 4 * (c[1] * c[1] + c[2] * c[2]) < (2 * r + 1) * (2 * r + 1)

CellsAtRadius(r) == {c \in (-r..r) \X (-r..r) : AtRadius(c, r)}

\* h[from..to] goes once around the origin clockwise from (0, r), through
\* every cell of radius r
ClockwiseRing(h, from, to, r) ==
  /\ h[from] = <<0, r>>
  /\ {h[i] : i \in from..to} = CellsAtRadius(r)
  /\ \A i \in from..(to - 1) : h[i][1] * h[i + 1][2] - h[i][2] * h[i + 1][1] < 0

\* C12: snap(circlescan(0,0,0,2)) emits exactly 21 points: (0,0), then the 8
\* cells of radius 1 and the 12 cells of radius 2, each ring clockwise from
\* (0,r), and no grid cell twice.
C12_CircleSnap21 ==
  (head.kind = "snap" /\ scan.kind = "circlescan"
     /\ scan.x0 = 0 /\ scan.y0 = 0 /\ scan.r1 = 0 /\ scan.r2 = 2) =>
    /\ \A i \in DOMAIN out : IsPt(out[i]) => out[i].x % Unit = 0 /\ out[i].y % Unit = 0
    /\ NoRepeat(Cells(out))
    /\ Len(Cells(out)) <= 21
    /\ scan.pc = "done" =>
         /\ Len(Cells(out)) = 21
         /\ Cells(out)[1] = <<0, 0>>
         /\ Cardinality(CellsAtRadius(1)) = 8 /\ ClockwiseRing(Cells(out), 2, 9, 1)
         /\ Cardinality(CellsAtRadius(2)) = 12 /\ ClockwiseRing(Cells(out), 10, 21, 2)

\* snap(circlescan(0,0,0,2)) is exhausted after 21 points
C12_Witness ==
  /\ head.kind = "snap" /\ scan.kind = "circlescan"
  /\ scan.x0 = 0 /\ scan.y0 = 0 /\ scan.r1 = 0 /\ scan.r2 = 2
  /\ scan.pc = "done" /\ Len(PointsOf(out)) = 21 /\ out[Len(out)] = Stop

\* C18: circlescan never emits a point whose rounded cell it emitted for the
\* immediately preceding radius, and after rounding no grid cell is emitted
\* twice in the whole sequence, for all radii 0 <= r1, r2 <= MaxCircle.
C18_CircleNoDuplicateCell ==
  (scan.kind = "circlescan" /\ head = NoObj) =>
    /\ \A i \in DOMAIN scan.current : ~InSeq(scan.current[i], scan.previous)
    /\ NoRepeat(Cells(out))

----------------------------------------------------------------------------
(* reservoir around a gridscan, with the draws to drain a grid of six points *)

InitReservoir ==
  /\ \E xf \in 0..MaxChainX, yf \in 0..MaxChainY : scan = gridscan(0, 0, xf, yf, 1, 1)
  /\ head = NoObj
  /\ out = <<>>
  /\ err = "none"

reservoir_gridscan_construct ==
  /\ CanWrap
  /\ scan.kind = "gridscan"
  /\ \E npoints \in 0..3, rnd \in Tapes(MaxFill) :
       Drained(reservoir_init(scan, npoints, rnd))

NextReservoir == reservoir_gridscan_construct \/ reservoir_pull

SpecReservoir == InitReservoir /\ [][NextReservoir]_vars

\* C13: reservoir(stream, npoints) over a finite upstream of N points emits
\* exactly min(npoints, N) points and then signals exhaustion; the points come
\* from pairwise distinct upstream positions (pairwise distinct points of the
\* grid), for every sequence of random outcomes.
C13_ReservoirSampleSize ==
  head.kind = "reservoir" =>
    /\ scan.pc = "done"
    /\ Len(head.reservoir) = Min2(head.npoints, Len(scan.hist))
    /\ NoRepeat(head.reservoir)
    /\ SeqSet(head.reservoir) \subseteq SeqSet(scan.hist)
    /\ PointsOf(out) = SubSeq(head.reservoir, 1, head.count)
    /\ \A i \in DOMAIN out :
         out[i] = Stop <=> i > Min2(head.npoints, Len(scan.hist))

\* a reservoir of 2 over the 6 points of gridscan(0,0,2,1) holds a point
\* that replaced an earlier one, and is exhausted
C13_Witness ==
  /\ head.kind = "reservoir" /\ head.npoints = 2 /\ Len(scan.hist) = 6
  /\ \E i \in 1..2 : head.reservoir[i] \notin {scan.hist[1], scan.hist[2]}
  /\ Len(out) = 3 /\ out[3] = Stop

----------------------------------------------------------------------------
(* snap(rotation(snakescan(...), angle)) on integers of any size.  Python    *)
(* integers are unbounded, and rotation computes in IEEE doubles, whose      *)
(* mantissa holds 53 bits.  A number is carried in three parts, as           *)
(*     big * 2^53  +  mu / Unit  +  tn / (Unit * 2^53)                       *)
(* big counts multiples of 2^53, mu is in micro-units and tn in micro-units  *)
(* of 2^-53.  An integer has tn = 0 and a whole mu.                          *)

Wide(big, mu, tn) == [big |-> big, mu |-> mu, tn |-> tn]

Sgn(n) == IF n > 0 THEN 1 ELSE IF n < 0 THEN -1 ELSE 0

\* math.cos(90 * (math.pi / 180.0)) = 6.123233995736766e-17, times 2^53, in
\* micro-units
cos_half_pi == 551532

\* v to the nearest multiple of s, a tie to the even multiple
Nearest(v, s) ==
  LET q == v \div s
      r == v % s
  IN  IF 2 * r < s THEN q * s
      ELSE IF 2 * r > s THEN (q + 1) * s
      ELSE IF q % 2 = 0 THEN q * s ELSE (q + 1) * s

\* the distance, in the unit of tn, between the doubles next to the whole
\* number mu / Unit on the side tn points to: 2^(e-52) for a double in
\* [2^e, 2^(e+1))
ulp(mu, tn) ==
  LET k == Abs(mu) \div Unit
      e == bit_length(k) - 1
  IN  IF k = Pow2(e) /\ Sgn(tn) # Sgn(mu) THEN Unit * Pow2(e) ELSE Unit * Pow2(e + 1)

\* the double nearest to v: from 2^53 on the doubles are the even integers,
\* from 2^52 to 2^53 the integers; a number that is not whole is kept to its
\* micro-units
fl(v) ==
  IF v.big # 0 THEN
    IF v.mu = 0 \/ Sgn(v.mu) = Sgn(v.big)
    THEN Wide(v.big, Nearest(v.mu, 2 * Unit), 0)
    ELSE Wide(v.big, Nearest(v.mu, Unit), 0)
  ELSE IF v.mu = 0 \/ v.tn = 0 THEN v
  ELSE IF v.mu % Unit # 0 THEN Wide(0, v.mu, 0)
  ELSE Wide(0, v.mu, Nearest(v.tn, ulp(v.mu, v.tn)))

\* math.cos(self.angle) and math.sin(self.angle) for the angles 0 and 90:
\* `one` when the value is 1.0 or 0.0, `tn` when it is below 2^-53
cos_wide(angle) ==
  IF angle = 0 THEN [one |-> 1, tn |-> 0] ELSE [one |-> 0, tn |-> cos_half_pi]

sin_wide(angle) ==
  IF angle = 0 THEN [one |-> 0, tn |-> 0] ELSE [one |-> 1, tn |-> 0]

\* c * v for c a cosine or sine and v the double of an integer
mul(c, v) ==
  IF c.one # 0 THEN Wide(c.one * v.big, c.one * v.mu, 0)
  ELSE Wide(0, c.tn * v.big, c.tn * (v.mu \div Unit))

add(v, w) == fl(Wide(v.big + w.big, v.mu + w.mu, v.tn + w.tn))

sub(v, w) == fl(Wide(v.big - w.big, v.mu - w.mu, v.tn - w.tn))

\* rotation.__next__: xr = ca * x - sa * y, yr = sa * x + ca * y, the integers
\* x and y converted to doubles by the products
rotation_wide_got(o, u) ==
  IF ~IsPt(u.res) THEN Ret(o, u, u.res)
  ELSE Ret(o, u,
           Pt(sub(mul(cos_wide(o.angle), fl(u.res.x)), mul(sin_wide(o.angle), fl(u.res.y))),
              add(mul(sin_wide(o.angle), fl(u.res.x)), mul(cos_wide(o.angle), fl(u.res.y)))))

\* int(v): the double v cut towards zero
int_wide(v) ==
  IF v.big # 0 THEN Wide(v.big, v.mu, 0)
  ELSE IF v.mu % Unit # 0 THEN Wide(0, Sgn(v.mu) * ((Abs(v.mu) \div Unit) * Unit), 0)
  ELSE IF v.mu # 0 /\ v.tn # 0 /\ Sgn(v.tn) # Sgn(v.mu) THEN Wide(0, v.mu - Sgn(v.mu) * Unit, 0)
  ELSE Wide(0, v.mu, 0)

\* int(round(v))
round_wide(v) == Wide(v.big, Nearest(v.mu, Unit), 0)

\* snap.__next__, its upstream pull u being a pull of the rotation self.scan
snap_wide_got(o, u) ==
  IF ~IsPt(u.res) THEN Ret([o EXCEPT !.scan = u.obj], u, u.res)
  ELSE Ret([o EXCEPT !.scan = u.obj], u, Pt(round_wide(u.res.x), round_wide(u.res.y)))

\* the call snakescan(bx * 2^53 + xi, by * 2^53 + yi, bx * 2^53 + xf,
\* by * 2^53 + yf): the generator compares and adds unbounded integers, so it
\* runs as that of snakescan(xi, yi, xf, yf), every point moved by
\* (bx * 2^53, by * 2^53)
snakescan_wide(bx, by, xi, yi, xf, yf) ==
  [bx |-> bx, by |-> by] @@ snakescan(xi, yi, xf, yf)

WidePt(g, res) ==
  IF IsPt(res) THEN Pt(Wide(g.bx, N(res.x), 0), Wide(g.by, N(res.y), 0)) ELSE res

HandedWide(r) ==
  [gen |-> IF IsPt(r.res) THEN [r.gen EXCEPT !.hist = Append(@, WidePt(r.gen, r.res))]
           ELSE r.gen,
   res |-> WidePt(r.gen, r.res), rnd |-> <<>>]

next_wide(g) == HandedWide(snakescan_next(g))

rotation_wide_next(o, g) == rotation_wide_got(o, next_wide(g))

snap_wide_next(o, g) == snap_wide_got(o, rotation_wide_next(o.scan, g))

\* the scans start at the origin or 2^53 away from it along either axis
WideBases == {0, 1}

InitWide ==
  /\ \E c \in SnakeArgs, bx \in WideBases, by \in WideBases :
       scan = snakescan_wide(bx, by, c.xi, c.yi, c.xf, c.yf)
  /\ \E angle \in {0, 90} : head = [kind |-> "snap", scan |-> rotation_init(angle).obj]
  /\ out = <<>>
  /\ err = "none"

\* the consumer pulls snap(rotation(snakescan(...), angle))
snap_rotation_pull ==
  /\ head.kind = "snap"
  /\ CanPull
  /\ Pulled(snap_wide_next(head, scan))

NextWide == snap_rotation_pull

SpecWide == InitWide /\ [][NextWide]_vars

\* the integer point p turned by 90 degrees counter-clockwise: (-y, x)
Turned(p) == Pt(Wide(-p.y.big, -p.y.mu, 0), p.x)

\* the integer point (x, y) near the origin
NearPt(x, y) == Pt(Wide(0, N(x), 0), Wide(0, N(y), 0))

\* snap(rotation(snakescan(0, 0, 2, 2), 90)), exhausted, gave the nine points
SquareSnakeTurned ==
  (scan.bx = 0 /\ scan.by = 0 /\ scan.xi = 0 /\ scan.yi = 0 /\ scan.xf = 2 /\ scan.yf = 2
     /\ scan.pc = "done") =>
    PointsOf(out) = <<NearPt(0, 0), NearPt(0, 1), NearPt(0, 2), NearPt(-1, 2), NearPt(-1, 1),
                      NearPt(-1, 0), NearPt(-2, 0), NearPt(-2, 1), NearPt(-2, 2)>>

\* order and count are those of the upstream, and so is the exhaustion
SameCountAndEnd ==
  /\ Len(PointsOf(out)) = Len(scan.hist)
  /\ \A i \in DOMAIN out : out[i].tag = "stop" => scan.pc = "done"
  /\ (out # <<>> /\ scan.pc = "done") => out[Len(out)].tag = "stop"

----------------------------------------------------------------------------
(* Properties of the chain *)

Last(h) == h[Len(h)]

\* the elements of h whose 0-based position satisfies keep(position), in order
RECURSIVE AtIndexes(_, _, _)
AtIndexes(h, keep(_), n) ==
  IF n = 0 THEN <<>>
  ELSE LET rest == AtIndexes(h, keep, n - 1)
       IN  IF keep(n - 1) THEN Append(rest, h[n]) ELSE rest

\* C1: once a pull on a stream has signalled exhaustion, every later pull on
\* it signals exhaustion too and never returns a point.
C1_ExhaustionIsTerminal ==
  \A i, j \in DOMAIN out : (i < j /\ out[i] = Stop) => out[j] = Stop

\* C3: an invalid parameter is reported by the constructing call: no generator
\* or transformation object with an invalid parameter exists, and no pull ever
\* reports a validation error.
C3_ValidationAtConstruction ==
  /\ scan.kind = "gridscan" => scan.stepx > 0 /\ scan.stepy > 0
  /\ scan.kind \in {"circlescan", "ringscan"} => scan.r1 >= 0 /\ scan.r2 >= 0
  /\ scan.kind = "ringscan" => callable(scan.metric)
  /\ scan.kind = "walkscan" => scan.xn >= 0 /\ scan.xp >= 0 /\ scan.yn >= 0 /\ scan.yp >= 0
  /\ head.kind = "scale" => head.sx > 0 /\ head.sy > 0
  /\ head.kind = "sample" => 0 <= head.probability /\ head.probability <= 2
  /\ head.kind = "skip" =>
       head.start >= 0 /\ head.stop >= 0 /\ head.stop >= head.start /\ head.step > 0
  /\ \A i \in DOMAIN out : out[i].tag \notin {"ValueError", "TypeError"}
  /\ err \in {"ValueError", "TypeError"} => head = NoObj

\* C6: skip emits, in upstream order, exactly the upstream points whose
\* 0-based index i has start <= i <= stop and (i - start) mod step = 0, then
\* signals exhaustion; around walkscan, skip(stop=N) emits exactly N+1 points
\* whatever the random outcomes.
C6_SkipSelectsByIndex ==
  head.kind = "skip" =>
    LET keep(i) == head.start <= i /\ i <= head.stop /\ (i - head.start) % head.step = 0
    IN
    /\ PointsOf(out) = AtIndexes(scan.hist, keep, Len(scan.hist))
    /\ Len(scan.hist) > head.stop + 1 => Last(out) = Stop
    /\ \A i \in DOMAIN out :
         out[i] = Stop => (Len(scan.hist) > head.stop + 1 \/ scan.pc = "done")
    /\ (scan.kind = "walkscan" /\ head.start = 0 /\ head.step = 1
          /\ NoErrorIn(out) /\ out # <<>> /\ Last(out) = Stop) =>
         Len(PointsOf(out)) = head.stop + 1

\* skip(walkscan(0,0), stop=2) has emitted its 3 points and signalled exhaustion
C6_Witness ==
  /\ head.kind = "skip" /\ scan.kind = "walkscan"
  /\ head.start = 0 /\ head.stop = 2 /\ head.step = 1
  /\ out # <<>> /\ Last(out) = Stop /\ Len(PointsOf(out)) = 3

\* the point passes clip's tests: inside the bounds, and kept by the predicate
ClipKeeps(o, p) ==
  /\ N(o.minx) <= p.x /\ p.x <= N(o.maxx)
  /\ N(o.miny) <= p.y /\ p.y <= N(o.maxy)
  /\ o.predicate # "none" => call_predicate(o.predicate, p.x, p.y)

\* the longest prefix of h whose points clip keeps
RECURSIVE KeptPrefix(_, _)
KeptPrefix(o, h) ==
  IF h = <<>> \/ ~ClipKeeps(o, Head(h)) THEN <<>>
  ELSE <<Head(h)>> \o KeptPrefix(o, Tail(h))

\* C7: clip with abort=True emits exactly the longest prefix of the upstream
\* in which every point passes the bounds and the predicate, signals
\* exhaustion at the first point that fails, and never emits an upstream point
\* located after it.
C7_ClipAbortEmitsPrefix ==
  (head.kind = "clip" /\ head.abort) =>
    /\ PointsOf(out) = KeptPrefix(head, scan.hist)
    /\ (\E i \in DOMAIN scan.hist : ~ClipKeeps(head, scan.hist[i])) =>
         Last(out) = Stop

\* C8: clip with abort=False emits, in upstream order, exactly the upstream
\* points that pass both the bounds and the predicate, drops the others, and
\* signals exhaustion exactly when the upstream does.
C8_ClipFilters ==
  (head.kind = "clip" /\ ~head.abort) =>
    LET keeps(p) == ClipKeeps(head, p) IN
    /\ PointsOf(out) = SelectSeq(scan.hist, keeps)
    /\ \A i \in DOMAIN out : out[i] = Stop => scan.pc = "done"
    /\ (out # <<>> /\ scan.pc = "done") => ~IsPt(Last(out))

\* a clip without abort dropped a point, emitted one and ended with the upstream
C8_Witness ==
  /\ head.kind = "clip" /\ ~head.abort
  /\ Len(PointsOf(out)) >= 1 /\ Len(scan.hist) > Len(PointsOf(out))
  /\ Last(out) = Stop

\* the step constructs a transformation of another kind than reservoir
ConstructsLazy == head = NoObj /\ head' # NoObj /\ head'.kind # "reservoir"

\* the step is a pull of the consumer: the output grows by one result
ConsumerPulls == head # NoObj /\ head' # NoObj /\ Len(out') = Len(out) + 1

\* the step runs a constructor: no transformation before, one or an error after
ConstructorRuns == head = NoObj /\ (head' # NoObj \/ err' # err)

\* C14: reservoir is eager and every other transformation is lazy:
\* constructing reservoir pulls the upstream until it signals exhaustion
\* before the first point is available, and no later pull on the reservoir
\* pulls the upstream again; constructing any other transformation pulls zero
\* upstream points, and an upstream that exists is pulled only during a pull
\* of the consumer (or reservoir's constructor).
C14_ReservoirEagerOthersLazy ==
  /\ [][/\ ConstructsLazy => (scan' = scan /\ scan'.pc = "created")
        /\ head.kind = "reservoir" => scan' = scan
        /\ (scan # NoGen /\ scan' # scan) =>
             (ConsumerPulls \/ (ConstructorRuns /\ scan'.pc = "done"))]_vars
  /\ [](head.kind = "reservoir" => scan.pc = "done")
  /\ []((head.kind \notin {"none", "reservoir"} /\ out = <<>>) =>
          (scan.pc = "created" /\ scan.hist = <<>>))

\* a reservoir built over a generator of three points or more has handed out
\* its first point; a lazy transformation exists around an untouched generator
C14_Witness ==
  /\ head.kind = "reservoir" /\ Len(scan.hist) >= 3
  /\ Len(PointsOf(out)) >= 1

\* the image of the upstream point p under a pointwise transformation
PointMap(o, p) ==
  CASE o.kind = "reflection" ->
         Pt(IF o.rx THEN -p.x ELSE p.x, IF o.ry THEN -p.y ELSE p.y)
    [] o.kind = "scale" -> Pt(o.sx * p.x, o.sy * p.y)
    [] o.kind = "translation" -> Pt(p.x + N(o.tx), p.y + N(o.ty))
    [] o.kind = "swap" -> Pt(p.y, p.x)

\* C15: reflection, scale, translation and swap are one-to-one pointwise maps
\* on the stream: each pull consumes exactly one upstream point, the i-th
\* output is the image of the i-th upstream point, order and count are
\* preserved, and exhaustion is signalled exactly when the upstream does.
C15_PointwiseMaps ==
  /\ [][(head.kind \in {"reflection", "scale", "translation", "swap"}
          /\ Len(out') = Len(out) + 1 /\ IsPt(Last(out'))) =>
         Len(scan'.hist) = Len(scan.hist) + 1]_vars
  /\ [](head.kind \in {"reflection", "scale", "translation", "swap"} =>
         /\ PointsOf(out) = [i \in DOMAIN scan.hist |-> PointMap(head, scan.hist[i])]
         /\ \A i \in DOMAIN out : out[i] = Stop => scan.pc = "done"
         /\ (out # <<>> /\ scan.pc = "done") => ~IsPt(Last(out)))

\* a scale with different factors has mapped three points off the diagonal
\* and signalled exhaustion with its upstream
C15_Witness ==
  /\ head.kind = "scale" /\ head.sx # head.sy
  /\ Len(PointsOf(out)) >= 3 /\ Last(out) = Stop
  /\ \E i \in DOMAIN scan.hist : scan.hist[i].x # 0 /\ scan.hist[i].y # 0

\* s is h with some elements left out
RECURSIVE IsSubseq(_, _)
IsSubseq(s, h) ==
  IF s = <<>> THEN TRUE
  ELSE IF h = <<>> THEN FALSE
  ELSE IF Head(s) = Head(h) THEN IsSubseq(Tail(s), Tail(h))
  ELSE IsSubseq(s, Tail(h))

\* C17: sample emits a subsequence of the upstream in upstream order for
\* every sequence of random draws (each emitted point is the upstream point
\* pulled last, so none is invented, reordered or emitted twice); with
\* probability 1 it emits every upstream point, and it signals exhaustion
\* exactly when the upstream does.
C17_SampleSubsequence ==
  /\ [][(head.kind = "sample" /\ Len(out') = Len(out) + 1 /\ IsPt(Last(out'))) =>
         (Len(scan'.hist) > Len(scan.hist) /\ Last(out') = Last(scan'.hist))]_vars
  /\ [](head.kind = "sample" =>
         /\ IsSubseq(PointsOf(out), scan.hist)
         /\ head.probability = 2 => PointsOf(out) = scan.hist
         /\ \A i \in DOMAIN out : out[i] = Stop => scan.pc = "done"
         /\ (out # <<>> /\ scan.pc = "done") => ~IsPt(Last(out)))

\* a sample of probability 1/2 dropped a point, emitted a later one and
\* ended with its upstream
C17_Witness ==
  /\ head.kind = "sample" /\ head.probability = 1
  /\ Len(PointsOf(out)) >= 1 /\ Len(scan.hist) > Len(PointsOf(out))
  /\ PointsOf(out)[1] # scan.hist[1]
  /\ Last(out) = Stop

\* the position of the first exhaustion in the results h, 0 if there is none
FirstStop(h) ==
  IF \E i \in DOMAIN h : h[i] = Stop
  THEN CHOOSE i \in DOMAIN h : h[i] = Stop /\ \A j \in 1..(i - 1) : h[j] # Stop
  ELSE 0

\* C20: skip's index counter equals the number of upstream points pulled so
\* far minus 1 in every reachable state and grows by exactly 1 per upstream
\* pull; before it first signals exhaustion skip pulls no upstream point of
\* index greater than stop+1, and over an upstream long enough it has consumed
\* exactly stop+2 upstream points when it first signals exhaustion.
C20_SkipIndexCountsPulls ==
  /\ [][(head.kind = "skip" /\ head'.kind = "skip") =>
         head'.index - head.index = Len(scan'.hist) - Len(scan.hist)]_vars
  /\ [](head.kind = "skip" =>
         /\ head.index = Len(scan.hist) - 1
         /\ (FirstStop(out) \in {0, Len(out)}) => Len(scan.hist) <= head.stop + 2
         /\ (FirstStop(out) = Len(out) /\ out # <<>> /\ scan.pc # "done") =>
              (Len(scan.hist) = head.stop + 2 /\ head.index = head.stop + 1))

\* skip(stop=1) over a longer upstream signalled exhaustion for the first
\* time after two points, having consumed three
C20_Witness ==
  /\ head.kind = "skip" /\ head.stop = 1 /\ head.start = 0 /\ head.step = 1
  /\ scan.pc # "done"
  /\ Len(out) = 3 /\ Last(out) = Stop /\ Len(scan.hist) = 3

====
